---- MODULE Spec2Model ----
(***************************************************************************)
(* Model of src/js/script.js, part 1 (the Three.js globe): the rotation    *)
(* of the Earth mesh, the cloud mesh and the borders group under the       *)
(* animation loop and the pointer-drag handlers, and the one-shot fetch    *)
(* of the country borders.                                                 *)
(*                                                                         *)
(* Angles are kept in micro-radians (1 unit = 0.000001 rad), times in      *)
(* milliseconds, pointer coordinates in pixels, so that every increment    *)
(* the code computes is an integer:                                        *)
(*   0.08  * (dt/1000)  rad = 80 * dt units                                *)
(*   0.095 * (dt/1000)  rad = 95 * dt units                                *)
(*   dx * 0.005         rad = 5000 * dx units                              *)
(*   dy * 0.005 * 0.5   rad = 2500 * dy units                              *)
(***************************************************************************)
EXTENDS Integers, Sequences, FiniteSets, TLC

VARIABLES
    earthRot,               \* earthMesh.rotation   [x |-> pitch, y |-> yaw]
    cloudRot,               \* cloudMesh.rotation
    bordersRot,             \* bordersGroup.rotation
    lastTime,               \* let lastTime (ms)
    rafPending,             \* number of requestAnimationFrame callbacks pending
    started,                \* animate has run at least once
    isDragging,             \* let isDragging
    previousMousePosition,  \* let previousMousePosition {x, y}
    fetchState,             \* position of the fetch(GEOJSON_URL) promise chain
    response,               \* what the fetch chain received (kept for reference)
    bordersChildren,        \* bordersGroup.children: the line loops added
    drawLog,                \* trace of features.forEach: the features entered, the
                            \* one that threw (0 if none), the feature of each line
    warnings,               \* number of console.warn calls of the catch handler
    unhandled,              \* a rejection left the promise chain unhandled
    lastEvent,              \* the handler that ran last, with its arguments
    nEvents,                \* number of handlers run so far
    dragStart,              \* where and when the last pointer-down on the surface
                            \* found the pointer, the Earth and lastTime
    projRadius,             \* radius handed to latLonToVector3
    projected,              \* the points projected so far, each with its vector
    currentSectionId,       \* let currentSectionId
    sectionActive,          \* section id -> its classList holds 'active'
    zIndex,                 \* section id -> its style.zIndex (0: never set)
    timers,                 \* pending setTimeout callbacks, in order of creation
    historyLen,             \* entries pushed with history.pushState
    listeners,              \* click listeners on an info button
    infoDisplay,            \* style.display of the button's target content
    buttonActive,           \* the info button's classList holds 'active'
    navEvent,               \* the navigation step that ran last
    nCalls                  \* showSection calls and clicks so far

vars == <<earthRot, cloudRot, bordersRot, lastTime, rafPending, started,
          isDragging, previousMousePosition, fetchState, response,
          bordersChildren, drawLog, warnings, unhandled,
          lastEvent, nEvents, dragStart, projRadius, projected,
          currentSectionId, sectionActive, zIndex, timers, historyLen,
          listeners, infoDisplay, buttonActive, navEvent, nCalls>>

rotVars == <<earthRot, cloudRot, bordersRot>>
animVars == <<lastTime, rafPending, started>>
dragVars == <<isDragging, previousMousePosition>>
fetchVars == <<fetchState, response, bordersChildren, drawLog, warnings,
               unhandled>>
projVars == <<projRadius, projected>>
navVars == <<currentSectionId, sectionActive, zIndex, timers, historyLen,
             listeners, infoDisplay, buttonActive, navEvent, nCalls>>
globeVars == <<rotVars, animVars, dragVars, fetchVars, lastEvent, nEvents,
               dragStart>>
restVars == <<dragStart, projVars, navVars>>

----------------------------------------------------------------------------
(* Bounds of the model *)

MaxCoord == 1       \* pointer coordinates range over 0..MaxCoord
MaxTime == 1        \* frame timestamps range over 0..MaxTime
MaxEvents == 4      \* handlers run in one behaviour

Coords == 0..MaxCoord
Times == 0..MaxTime

----------------------------------------------------------------------------
(* Program constants, in the units above *)

EARTH_RADIUS == 200
EarthYawRate == 80          \* 0.08 rad/s
CloudYawRate == 95          \* 0.095 rad/s
RotationSpeed == 5000       \* rotationSpeed = 0.005 rad/pixel
PitchDivisor == 2           \* the factor 0.5 applied to the pitch

Event(type, x, y, t) == [type |-> type, x |-> x, y |-> y, t |-> t]

----------------------------------------------------------------------------
(* JavaScript values of the GeoJSON payload, tagged by their type *)

JUndef == [t |-> "undefined"]
JNull == [t |-> "null"]
JNum(n) == [t |-> "number", v |-> n]
JArr(s) == [t |-> "array", v |-> s]

IsArray(c) == c.t = "array"
IsNumber(c) == c.t = "number"
\* c[i] of a value that is neither null nor undefined (i counted from 1)
Index(c, i) == IF IsArray(c) /\ i <= Len(c.v) THEN c.v[i] ELSE JUndef
\* reading a property of null or undefined throws a TypeError
ThrowsOnRead(c) == c = JNull \/ c = JUndef

----------------------------------------------------------------------------
(* Geographic projector.  Lengths are in half units (1 unit = 0.5), angles  *)
(* in degrees; the sine and cosine are tabulated on the multiples of 90.    *)

SinDeg(d) ==
    CASE d % 360 = 0 -> 0
      [] d % 360 = 90 -> 1
      [] d % 360 = 180 -> 0
      [] d % 360 = 270 -> -1

CosDeg(d) == SinDeg(d + 90)

NaNVector == [x |-> 0, y |-> 0, z |-> 0, nan |-> TRUE]

\* variant: the latitude used where the colatitude 90 - lat belongs
latLonToVector3FromLatitude(lat, lon, radius) ==
    IF ~IsNumber(lat) \/ ~IsNumber(lon)
    THEN NaNVector
    ELSE LET phi == lat.v
             theta == lon.v + 180
         IN [x |-> (0 - radius) * SinDeg(phi) * CosDeg(theta),
             y |-> radius * CosDeg(phi),
             z |-> radius * SinDeg(phi) * SinDeg(theta),
             nan |-> FALSE]

\* variant: z without its factor sin(phi)
latLonToVector3FlatZ(lat, lon, radius) ==
    IF ~IsNumber(lat) \/ ~IsNumber(lon)
    THEN NaNVector
    ELSE LET phi == 90 - lat.v
             theta == lon.v + 180
         IN [x |-> (0 - radius) * SinDeg(phi) * CosDeg(theta),
             y |-> radius * CosDeg(phi),
             z |-> radius * SinDeg(theta),
             nan |-> FALSE]

latLonToVector3(lat, lon, radius) ==
    IF ~IsNumber(lat) \/ ~IsNumber(lon)
    THEN NaNVector      \* arithmetic on undefined gives NaN in every component
    ELSE LET phi == 90 - lat.v
             theta == lon.v + 180
         IN [x |-> (0 - radius) * SinDeg(phi) * CosDeg(theta),
             y |-> radius * CosDeg(phi),
             z |-> radius * SinDeg(phi) * SinDeg(theta),
             nan |-> FALSE]

----------------------------------------------------------------------------
(* Border renderer.  Each operator returns the line loops it adds to       *)
(* bordersGroup, in order, and whether it threw; what was added before a   *)
(* throw stays in the group.                                               *)

NoLines == [lines |-> <<>>, threw |-> FALSE]

\* ring.forEach(([lon, lat]) => points.push(latLonToVector3(lat, lon, radius + 0.5)))
RECURSIVE RingPoints(_, _, _, _)
RingPoints(ring, i, radius, points) ==
    IF i > Len(ring.v) THEN [points |-> points, threw |-> FALSE]
    ELSE IF ~IsArray(ring.v[i])     \* destructuring a non-iterable throws
         THEN [points |-> points, threw |-> TRUE]
         ELSE RingPoints(ring, i + 1, radius,
                Append(points,
                       latLonToVector3(Index(ring.v[i], 2), Index(ring.v[i], 1),
                                       2 * radius + 1)))

\* rings.forEach((ring) => { ...; bordersGroup.add(line) })
RECURSIVE DrawRings(_, _, _, _)
DrawRings(rings, i, radius, lines) ==
    IF i > Len(rings) THEN [lines |-> lines, threw |-> FALSE]
    ELSE IF ~IsArray(rings[i])      \* ring.forEach of a non-array throws
         THEN [lines |-> lines, threw |-> TRUE]
         ELSE LET r == RingPoints(rings[i], 1, radius, <<>>)
              IN IF r.threw
                 THEN [lines |-> lines, threw |-> TRUE]
                 ELSE DrawRings(rings, i + 1, radius,
                                Append(lines, [points |-> r.points]))

drawCountryLine(coords, radius) ==
    IF ~IsArray(coords) \/ Len(coords.v) = 0 THEN NoLines
    ELSE IF ThrowsOnRead(coords.v[1])       \* coords[0][0]
         THEN [lines |-> <<>>, threw |-> TRUE]
         ELSE LET rings == IF IsNumber(Index(coords.v[1], 1))
                           THEN <<coords>> ELSE coords.v
              IN DrawRings(rings, 1, radius, <<>>)

\* geom.coordinates.forEach((poly) => drawCountryLine(poly, ...))
RECURSIVE DrawPolys(_, _, _)
DrawPolys(polys, i, lines) ==
    IF i > Len(polys) THEN [lines |-> lines, threw |-> FALSE]
    ELSE LET r == drawCountryLine(polys[i], EARTH_RADIUS)
         IN IF r.threw
            THEN [lines |-> lines \o r.lines, threw |-> TRUE]
            ELSE DrawPolys(polys, i + 1, lines \o r.lines)

\* variant: the callback without "if (!geom) return" (geom.type of null throws)
DrawFeatureNoNullCheck(feature) ==
    LET geom == feature.geometry
    IN IF geom = JNull THEN [lines |-> <<>>, threw |-> TRUE]
       ELSE IF geom.type = "Polygon"
            THEN drawCountryLine(geom.coordinates, EARTH_RADIUS)
            ELSE IF geom.type = "MultiPolygon"
                 THEN IF ~IsArray(geom.coordinates)
                      THEN [lines |-> <<>>, threw |-> TRUE]
                      ELSE DrawPolys(geom.coordinates.v, 1, <<>>)
                 ELSE NoLines

\* the callback of geojson.features.forEach
DrawFeature(feature) ==
    LET geom == feature.geometry
    IN IF geom = JNull THEN NoLines
       ELSE IF geom.type = "Polygon"
            THEN drawCountryLine(geom.coordinates, EARTH_RADIUS)
            ELSE IF geom.type = "MultiPolygon"
                 THEN IF ~IsArray(geom.coordinates)
                      THEN [lines |-> <<>>, threw |-> TRUE]
                      ELSE DrawPolys(geom.coordinates.v, 1, <<>>)
                 ELSE NoLines

EmptyLog == [visited |-> {}, abortedAt |-> 0, owner |-> <<>>]

\* geojson.features.forEach(...): the lines in the group and the trace
RECURSIVE DrawFeatures(_, _, _, _)
DrawFeatures(features, i, lines, log) ==
    IF i > Len(features) THEN [lines |-> lines, log |-> log, threw |-> FALSE]
    ELSE LET r == DrawFeature(features[i])
             lines2 == lines \o r.lines
             owner2 == log.owner \o [k \in 1..Len(r.lines) |-> i]
             visited2 == log.visited \cup {i}
         IN IF r.threw
            THEN [lines |-> lines2,
                  log |-> [visited |-> visited2, abortedAt |-> i, owner |-> owner2],
                  threw |-> TRUE]
            ELSE DrawFeatures(features, i + 1, lines2,
                   [visited |-> visited2, abortedAt |-> 0, owner |-> owner2])

----------------------------------------------------------------------------
(* The GeoJSON payloads the fetch is modelled to receive *)

MaxFeatures == 2    \* features in one payload

Pt(lon, lat) == JArr(<<JNum(lon), JNum(lat)>>)
RingA == JArr(<<Pt(0, 0), Pt(90, 0), Pt(0, 90)>>)
RingB == JArr(<<Pt(-180, 0), Pt(-90, 0), Pt(0, -90), Pt(180, 90)>>)
BadRing == JArr(<<Pt(0, 0), JNum(5), Pt(90, 0)>>)   \* holds a non-pair element

Feature(type, coordinates) ==
    [geometry |-> [type |-> type, coordinates |-> coordinates]]
NullGeometry == [geometry |-> JNull]

WellFormedFeatures ==
    { Feature("Polygon", JArr(<<RingA>>)),
      Feature("Polygon", JArr(<<RingB, RingA>>)),
      Feature("MultiPolygon", JArr(<<JArr(<<RingA>>), JArr(<<RingB>>)>>)),
      Feature("MultiPolygon", JArr(<<JArr(<<RingB, RingA>>)>>)) }

SkippedFeatures ==
    { NullGeometry,
      Feature("Point", Pt(0, 0)),
      Feature("LineString", RingA) }

MalformedFeatures ==
    { Feature("Polygon", JUndef),               \* coordinates missing
      Feature("Polygon", JNum(7)),              \* coordinates not an array
      Feature("Polygon", RingA),                \* a bare ring
      Feature("Polygon", JArr(<<JNull>>)),
      Feature("Polygon", JArr(<<RingA, BadRing>>)),
      Feature("MultiPolygon", JUndef),          \* coordinates missing
      Feature("MultiPolygon", JNum(7)),         \* coordinates not an array
      Feature("MultiPolygon", JArr(<<JArr(<<RingA>>), JArr(<<BadRing>>)>>)) }

AllFeatures == WellFormedFeatures \cup SkippedFeatures \cup MalformedFeatures

FeatureLists(S, n) == UNION { [1..k -> S] : k \in 0..n }

BadJson == [kind |-> "badjson"]
Json(features) == [kind |-> "json", features |-> features]

\* every payload: unparsable, without a features array, or a feature list
Bodies ==
    {BadJson, Json(JUndef)}
        \cup { Json(JArr(fs)) : fs \in FeatureLists(AllFeatures, MaxFeatures) }

\* the payloads used where the fetch runs beside the animation and the drag
FewBodies ==
    {BadJson, Json(JUndef), Json(JArr(<<>>))}
        \cup { Json(JArr(<<f>>)) :
                 f \in { Feature("Polygon", JArr(<<RingA>>)), NullGeometry,
                         Feature("MultiPolygon", JUndef) } }

HttpOk == 200
Statuses == {HttpOk, 404, 500}
NetError == [kind |-> "neterror"]
Http(status) == [kind |-> "http", status |-> status]

----------------------------------------------------------------------------
(* State after the globe's set-up code has run *)

ZeroRot == [x |-> 0, y |-> 0]

\* the sections of the page that the model navigates between
Sections == {"home", "quiz", "california-case"}

\* an id that no element of the page carries
MissingId == "missing"

\* initializePage with location.hash naming the section `hash`
NavLoaded(hash) ==
    /\ currentSectionId = hash
    /\ sectionActive = [s \in Sections |-> s = hash]
    /\ zIndex = [s \in Sections |-> IF s = hash THEN 1 ELSE 0]
    /\ timers = <<>>
    /\ historyLen = 0
    /\ listeners = 0
    /\ infoDisplay = ""
    /\ buttonActive = FALSE
    /\ navEvent = [type |-> "load", target |-> hash]
    /\ nCalls = 0

InitGlobe ==
    /\ earthRot = ZeroRot
    /\ cloudRot = ZeroRot
    /\ bordersRot = ZeroRot
    /\ lastTime = 0
    /\ rafPending = 1
    /\ started = FALSE
    /\ isDragging = FALSE
    /\ previousMousePosition = [x |-> 0, y |-> 0]
    /\ fetchState = "pending"
    /\ response = [kind |-> "none"]
    /\ bordersChildren = <<>>
    /\ drawLog = EmptyLog
    /\ warnings = 0
    /\ unhandled = FALSE
    /\ lastEvent = Event("init", 0, 0, 0)
    /\ nEvents = 0
    /\ dragStart = [x |-> 0, y |-> 0, rot |-> ZeroRot, time |-> 0]

\* latLonToVector3 has not been called
ProjectorIdle == projRadius = 0 /\ projected = {}

Init == InitGlobe /\ ProjectorIdle /\ NavLoaded("home")

----------------------------------------------------------------------------
(* Animation driver *)

\* const delta = (t - lastTime) / 1000 || 0, in milliseconds
Delta(t, last) == t - last

\* variant: the Earth advanced at the clouds' rate
AdvanceEarthAtCloudRate(rot, dt) == [rot EXCEPT !.y = @ + CloudYawRate * dt]

\* earthMesh.rotation.y += 0.08 * delta
AdvanceEarth(rot, dt) == [rot EXCEPT !.y = @ + EarthYawRate * dt]

\* cloudMesh.rotation.y += 0.095 * delta
AdvanceCloud(rot, dt) == [rot EXCEPT !.y = @ + CloudYawRate * dt]

\* variant: the borders group left where it was
CopyYawNever(rot, from) == rot

\* bordersGroup.rotation.y = earthMesh.rotation.y
CopyYaw(rot, from) == [rot EXCEPT !.y = from.y]

\* variant: animate without its requestAnimationFrame(animate)
RescheduleNever(pending) == pending - 1

\* the callback that ran leaves the queue; requestAnimationFrame(animate) adds one
Reschedule(pending) == (pending - 1) + 1

AnimateFrame(t) ==
    /\ rafPending > 0
    /\ t >= lastTime            \* the frame clock does not run backwards
    /\ LET dt == Delta(t, lastTime)
       IN /\ lastTime' = t
          /\ earthRot' = AdvanceEarth(earthRot, dt)
          /\ cloudRot' = AdvanceCloud(cloudRot, dt)
          /\ bordersRot' = CopyYaw(bordersRot, earthRot')
    /\ rafPending' = Reschedule(rafPending)
    /\ started' = TRUE
    /\ lastEvent' = Event("animate", 0, 0, t)
    /\ UNCHANGED <<dragVars, fetchVars, restVars>>

\* a frame, counted among the handlers of the behaviour
Animate(t) ==
    /\ nEvents < MaxEvents
    /\ AnimateFrame(t)
    /\ nEvents' = nEvents + 1

\* a frame of the endless loop: not counted, the timestamps stop at MaxTime
Frame(t) == AnimateFrame(t) /\ UNCHANGED nEvents

----------------------------------------------------------------------------
(* Input controller *)

\* renderer.domElement 'pointerdown'; a pointer-down elsewhere has no handler
PointerDown(x, y, onSurface) ==
    /\ nEvents < MaxEvents
    /\ IF onSurface
       THEN /\ isDragging' = TRUE
            /\ previousMousePosition' = [x |-> x, y |-> y]
            /\ dragStart' = [x |-> x, y |-> y, rot |-> earthRot, time |-> lastTime]
       ELSE UNCHANGED <<dragVars, dragStart>>
    /\ lastEvent' = Event(IF onSurface THEN "pointerdown" ELSE "pointerdown-outside",
                          x, y, 0)
    /\ nEvents' = nEvents + 1
    /\ UNCHANGED <<rotVars, animVars, fetchVars, projVars, navVars>>

\* variant: the pointer-up handler leaves the session open
PointerUpKeepsSession ==
    /\ nEvents < MaxEvents
    /\ lastEvent' = Event("pointerup", 0, 0, 0)
    /\ nEvents' = nEvents + 1
    /\ UNCHANGED <<dragVars, rotVars, animVars, fetchVars, restVars>>

\* window 'pointerup'
PointerUp ==
    /\ nEvents < MaxEvents
    /\ isDragging' = FALSE
    /\ lastEvent' = Event("pointerup", 0, 0, 0)
    /\ nEvents' = nEvents + 1
    /\ UNCHANGED <<previousMousePosition, rotVars, animVars, fetchVars, restVars>>

\* variant: the pitch turned at the full rate
DragRotateFullPitch(rot, dx, dy) ==
    [x |-> rot.x + dy * RotationSpeed, y |-> rot.y + dx * RotationSpeed]

\* earthMesh.rotation.y += deltaMove.x * rotationSpeed;
\* earthMesh.rotation.x += deltaMove.y * rotationSpeed * 0.5
DragRotate(rot, dx, dy) ==
    [x |-> rot.x + (dy * RotationSpeed) \div PitchDivisor,
     y |-> rot.y + dx * RotationSpeed]

\* variant: the pointer-move handler without its isDragging guard
PointerMoveUnguarded(x, y) ==
    /\ nEvents < MaxEvents
    /\ earthRot' = [x |-> earthRot.x
                            + ((y - previousMousePosition.y) * RotationSpeed)
                                \div PitchDivisor,
                    y |-> earthRot.y
                            + (x - previousMousePosition.x) * RotationSpeed]
    /\ cloudRot' = earthRot'
    /\ bordersRot' = earthRot'
    /\ previousMousePosition' = [x |-> x, y |-> y]
    /\ UNCHANGED isDragging
    /\ lastEvent' = Event("pointermove", x, y, 0)
    /\ nEvents' = nEvents + 1
    /\ UNCHANGED <<animVars, fetchVars, restVars>>

\* variant: the pointer-move handler without its last line, which records the
\* pointer's position
PointerMoveKeepsPosition(x, y) ==
    /\ nEvents < MaxEvents
    /\ IF ~isDragging
       THEN UNCHANGED <<rotVars, dragVars>>
       ELSE /\ earthRot' = DragRotate(earthRot, x - previousMousePosition.x,
                                      y - previousMousePosition.y)
            /\ cloudRot' = earthRot'
            /\ bordersRot' = earthRot'
            /\ UNCHANGED dragVars
    /\ lastEvent' = Event("pointermove", x, y, 0)
    /\ nEvents' = nEvents + 1
    /\ UNCHANGED <<animVars, fetchVars, restVars>>

\* window 'pointermove'
PointerMove(x, y) ==
    /\ nEvents < MaxEvents
    /\ IF ~isDragging
       THEN UNCHANGED <<rotVars, dragVars>>
       ELSE /\ earthRot' = DragRotate(earthRot, x - previousMousePosition.x,
                                      y - previousMousePosition.y)
            /\ cloudRot' = earthRot'        \* cloudMesh.rotation.copy(...)
            /\ bordersRot' = earthRot'      \* bordersGroup.rotation.copy(...)
            /\ previousMousePosition' = [x |-> x, y |-> y]
            /\ UNCHANGED isDragging
    /\ lastEvent' = Event("pointermove", x, y, 0)
    /\ nEvents' = nEvents + 1
    /\ UNCHANGED <<animVars, fetchVars, restVars>>

----------------------------------------------------------------------------
(* fetch(GEOJSON_URL).then(...).then(...).catch(...) *)

\* variant: the chain without its .catch
CatchAbsent(rejected, w) == [warnings |-> w, unhandled |-> rejected]

\* .catch((err) => console.warn(...)): the end of the chain
Catch(rejected, w) ==
    [warnings |-> IF rejected THEN w + 1 ELSE w, unhandled |-> FALSE]

\* variant: the request issued again once the chain has ended
ChainRestarts == "pending"

\* the chain has run to its end; a promise settles once
ChainEnd == "done"

\* the fetch promise settles; the first .then checks r.ok and starts r.json()
FetchSettled(res) ==
    /\ fetchState = "pending"
    /\ response' = res
    /\ LET rejected == res.kind = "neterror" \/ ~(res.status \in 200..299)
           end == Catch(rejected, warnings)
       IN /\ fetchState' = IF rejected THEN ChainEnd ELSE "parsing"
          /\ warnings' = end.warnings
          /\ unhandled' = end.unhandled
    /\ lastEvent' = Event("fetch", 0, 0, 0)
    /\ UNCHANGED <<rotVars, animVars, dragVars, bordersChildren, drawLog, nEvents,
                   restVars>>

\* r.json() settles; the second .then draws the borders
JsonSettled(body) ==
    /\ fetchState = "parsing"
    /\ response' = body
    /\ fetchState' = ChainEnd
    /\ LET drawn ==
             IF body.kind = "badjson"       \* r.json() rejects
             THEN [lines |-> bordersChildren, log |-> drawLog, threw |-> TRUE]
             ELSE IF ~IsArray(body.features)    \* geojson.features.forEach throws
                  THEN [lines |-> bordersChildren, log |-> drawLog, threw |-> TRUE]
                  ELSE DrawFeatures(body.features.v, 1, bordersChildren, drawLog)
           end == Catch(drawn.threw, warnings)
       IN /\ bordersChildren' = drawn.lines
          /\ drawLog' = drawn.log
          /\ warnings' = end.warnings
          /\ unhandled' = end.unhandled
    /\ lastEvent' = Event("json", 0, 0, 0)
    /\ UNCHANGED <<rotVars, animVars, dragVars, nEvents, restVars>>

----------------------------------------------------------------------------

Globe ==
    \/ \E t \in Times : Animate(t)
    \/ \E x \in Coords, y \in Coords, s \in BOOLEAN : PointerDown(x, y, s)
    \/ PointerUp
    \/ \E x \in Coords, y \in Coords : PointerMove(x, y)

Fetching == \E res \in {NetError} \cup {Http(st) : st \in Statuses} : FetchSettled(res)

Next ==
    \/ Globe
    \/ Fetching
    \/ \E body \in FewBodies : JsonSettled(body)

Spec == Init /\ [][Next]_vars

\* the fetch chain alone, over every payload
NextBorders ==
    \/ Fetching
    \/ \E body \in Bodies : JsonSettled(body)

SpecBorders == Init /\ [][NextBorders]_vars

\* the geographic projector alone: a radius is drawn, then points of the grid
\* of latitudes and longitudes are projected at it
MaxRadius == 4      \* radii range over 1..MaxRadius
MaxProjected == 2   \* points projected in one behaviour

Lats == {-90, 0, 90}
Lons == {-180, -90, 0, 90, 180}

Project(lat, lon) ==
    /\ projRadius > 0
    /\ Cardinality(projected) < MaxProjected
    /\ projected' = projected \cup
          {[lat |-> lat, lon |-> lon, radius |-> projRadius,
            v |-> latLonToVector3(JNum(lat), JNum(lon), projRadius)]}
    /\ UNCHANGED <<globeVars, projRadius, navVars>>

InitProject ==
    /\ InitGlobe
    /\ projRadius \in 1..MaxRadius
    /\ projected = {}
    /\ NavLoaded("home")

NextProject == \E lat \in Lats, lon \in Lons : Project(lat, lon)

SpecProject == InitProject /\ [][NextProject]_vars

----------------------------------------------------------------------------
(* Section navigation.  Timers hold the time left before they fire, in ms;  *)
(* the timers that only scroll the window are left out.                     *)

MaxCalls == 3       \* showSection calls, popstate events and clicks

HideDelay == 800
ShowDelay == 50
ButtonsDelay == 500

Timer(kind, section, left) == [kind |-> kind, section |-> section, left |-> left]

\* showSection(targetId): the navigation state it leaves
showSection(targetId) ==
    LET hidden == [sectionActive EXCEPT ![currentSectionId] = FALSE]
        t1 == Append(timers, Timer("hide", currentSectionId, HideDelay))
        found == targetId \in Sections
        t2 == IF found THEN Append(t1, Timer("show", targetId, ShowDelay)) ELSE t1
        t3 == IF targetId = "california-case"
              THEN Append(t2, Timer("buttons", targetId, ButtonsDelay)) ELSE t2
    IN [currentSectionId |-> IF found THEN targetId ELSE currentSectionId,
        sectionActive |-> hidden,
        zIndex |-> IF found THEN [zIndex EXCEPT ![targetId] = 1] ELSE zIndex,
        timers |-> t3,
        historyLen |-> historyLen + 1]

Navigate(type, targetId, after) ==
    /\ nCalls < MaxCalls
    /\ currentSectionId' = after.currentSectionId
    /\ sectionActive' = after.sectionActive
    /\ zIndex' = after.zIndex
    /\ timers' = after.timers
    /\ historyLen' = after.historyLen
    /\ navEvent' = [type |-> type, target |-> targetId]
    /\ nCalls' = nCalls + 1
    /\ UNCHANGED <<listeners, infoDisplay, buttonActive, globeVars, projVars>>

\* a call of showSection from the page (a navigation button, handleQuiz)
ShowSection(targetId) == Navigate("showSection", targetId, showSection(targetId))

\* the popstate listener of initializePage, with the hash of the new location
Popstate(hash) ==
    Navigate("popstate", hash,
             IF hash # currentSectionId
             THEN showSection(hash)
             ELSE [currentSectionId |-> currentSectionId,
                   sectionActive |-> sectionActive, zIndex |-> zIndex,
                   timers |-> timers, historyLen |-> historyLen])

\* the first timer, in order of creation, among those that are due
DueTimer == CHOOSE i \in 1..Len(timers) :
                /\ timers[i].left = 0
                /\ \A j \in 1..(i - 1) : timers[j].left # 0

Without(seq, i) == [k \in 1..(Len(seq) - 1) |-> IF k < i THEN seq[k] ELSE seq[k + 1]]

\* a setTimeout callback runs
FireTimer ==
    /\ \E i \in 1..Len(timers) : timers[i].left = 0
    /\ LET tm == timers[DueTimer]
       IN /\ timers' = Without(timers, DueTimer)
          /\ zIndex' = IF tm.kind = "hide"
                        THEN [zIndex EXCEPT ![tm.section] = -1] ELSE zIndex
          /\ sectionActive' = IF tm.kind = "show"
                               THEN [sectionActive EXCEPT ![tm.section] = TRUE]
                               ELSE sectionActive
          \* initializeInteractiveButtons: one more click listener on the button
          /\ listeners' = IF tm.kind = "buttons" THEN listeners + 1 ELSE listeners
          /\ navEvent' = [type |-> "timer", target |-> tm.section]
    /\ UNCHANGED <<currentSectionId, historyLen, infoDisplay, buttonActive, nCalls,
                   globeVars, projVars>>

\* time passes: d ms, no further than the next timer; the page is used at the
\* instants at which timers are due, or at once
Elapse(d) ==
    /\ timers # <<>>
    /\ d > 0
    /\ \A i \in 1..Len(timers) : timers[i].left >= d
    /\ timers' = [i \in 1..Len(timers) |->
                     [timers[i] EXCEPT !.left = @ - d]]
    /\ navEvent' = [type |-> "wait", target |-> ""]
    /\ UNCHANGED <<currentSectionId, sectionActive, zIndex, historyLen, listeners,
                   infoDisplay, buttonActive, nCalls, globeVars, projVars>>

NextDue == CHOOSE d \in {timers[i].left : i \in 1..Len(timers)} :
               \A i \in 1..Len(timers) : timers[i].left >= d

\* one run of a click listener of initializeInteractiveButtons
Toggled(state) ==
    [display |-> IF state.display = "block" THEN "none" ELSE "block",
     active |-> ~state.active]

RECURSIVE RunListeners(_, _)
RunListeners(n, state) == IF n = 0 THEN state ELSE RunListeners(n - 1, Toggled(state))

\* a click on the info button: every listener added so far runs
Click ==
    /\ nCalls < MaxCalls
    /\ LET after == RunListeners(listeners,
                                 [display |-> infoDisplay, active |-> buttonActive])
       IN /\ infoDisplay' = after.display
          /\ buttonActive' = after.active
    /\ navEvent' = [type |-> "click", target |-> ""]
    /\ nCalls' = nCalls + 1
    /\ UNCHANGED <<currentSectionId, sectionActive, zIndex, timers, historyLen,
                   listeners, globeVars, projVars>>

InitNav == InitGlobe /\ ProjectorIdle /\ \E hash \in Sections : NavLoaded(hash)

NextNav ==
    \/ \E target \in Sections \cup {MissingId} : ShowSection(target)
    \/ \E hash \in Sections \cup {MissingId} : Popstate(hash)
    \/ FireTimer
    \/ Elapse(NextDue)
    \/ Click

SpecNav == InitNav /\ [][NextNav]_vars

\* navigation between existing sections only
NextSections ==
    \/ \E target \in Sections : ShowSection(target)
    \/ \E hash \in Sections : Popstate(hash)
    \/ FireTimer
    \/ Elapse(NextDue)

SpecSections == InitNav /\ [][NextSections]_vars

\* the animation loop under a fair frame clock, beside the pointer events and
\* the fetch
Frames == \E t \in Times : Frame(t)

MaxLoopEvents == 2  \* pointer events in one behaviour of the loop

NextLoop ==
    \/ Frames
    \/ /\ nEvents < MaxLoopEvents
       /\ \/ \E x \in Coords, y \in Coords, s \in BOOLEAN : PointerDown(x, y, s)
          \/ PointerUp
          \/ \E x \in Coords, y \in Coords : PointerMove(x, y)
    \/ Fetching
    \/ \E body \in FewBodies : JsonSettled(body)

SpecLoop == Init /\ [][NextLoop]_vars /\ WF_vars(Frames)

----------------------------------------------------------------------------
(* Vocabulary of the properties *)

MovedInSession == lastEvent'.type = "pointermove" /\ isDragging
MovedOutOfSession == lastEvent'.type = "pointermove" /\ ~isDragging
Ticked == lastEvent'.type = "animate"

\* the fetch ended in a transport error or a non-success status
FetchFailed ==
    /\ fetchState = "done"
    /\ \/ response.kind = "neterror"
       \/ response.kind = "http" /\ ~(response.status \in 200..299)

\* the second .then received a payload with a features array
Drawn ==
    /\ fetchState = "done"
    /\ response.kind = "json"
    /\ IsArray(response.features)

Features == response.features.v

IsPair(p) == IsArray(p) /\ Len(p.v) >= 2 /\ IsNumber(p.v[1]) /\ IsNumber(p.v[2])
IsRing(r) == IsArray(r) /\ \A i \in 1..Len(r.v) : IsPair(r.v[i])
IsRingSet(c) == IsArray(c) /\ \A i \in 1..Len(c.v) : IsRing(c.v[i])

IsBorder(f) ==
    f.geometry # JNull /\ f.geometry.type \in {"Polygon", "MultiPolygon"}

\* geometry null, or of a type that is neither Polygon nor MultiPolygon
IsSkipped(f) == ~IsBorder(f)

WellFormed(f) ==
    /\ IsBorder(f)
    /\ IF f.geometry.type = "Polygon"
       THEN IsRingSet(f.geometry.coordinates)
       ELSE /\ IsArray(f.geometry.coordinates)
            /\ \A i \in 1..Len(f.geometry.coordinates.v) :
                   IsRingSet(f.geometry.coordinates.v[i])

Malformed(f) == IsBorder(f) /\ ~WellFormed(f)

RECURSIVE Flatten(_)
Flatten(arrs) == IF arrs = <<>> THEN <<>> ELSE Head(arrs).v \o Flatten(Tail(arrs))

\* the rings of a well-formed feature, in order
RingsOf(f) ==
    IF f.geometry.type = "Polygon"
    THEN f.geometry.coordinates.v
    ELSE Flatten(f.geometry.coordinates.v)

\* the lines of the borders group that feature i added, in order
OwnedLines(i) ==
    LET ks == {k \in 1..Len(drawLog.owner) : drawLog.owner[k] = i}
    IN [n \in 1..Cardinality(ks) |->
          bordersChildren[CHOOSE k \in ks : Cardinality({j \in ks : j < k}) = n - 1]]

\* a line is the loop of a ring: as many vertices, in ring order, each the
\* projection of its point on the sphere of radius EARTH_RADIUS + 0.5
IsLoopOf(line, ring) ==
    /\ Len(line.points) = Len(ring.v)
    /\ \A k \in 1..Len(ring.v) :
          LET v == line.points[k]
          IN /\ v = latLonToVector3(ring.v[k].v[2], ring.v[k].v[1], 401)
             /\ ~v.nan
             /\ v.x * v.x + v.y * v.y + v.z * v.z = 401 * 401

HasAllItsLoops(i) ==
    LET rings == RingsOf(Features[i])
        lines == OwnedLines(i)
    IN /\ Len(lines) = Len(rings)
       /\ \A n \in 1..Len(rings) : IsLoopOf(lines[n], rings[n])

----------------------------------------------------------------------------
(* Properties *)

\* C1: at the end of every handler the cloud mesh and the borders group have
\* the yaw and the pitch of the Earth mesh.
C1_LayersFollowEarth == cloudRot = earthRot /\ bordersRot = earthRot

\* C2: the first animation frame, whatever its timestamp, leaves the yaw of
\* the Earth mesh unchanged (its delta is 0).
C2_FirstFrameKeepsYaw ==
    [][(Ticked /\ ~started) => earthRot'.y = earthRot.y]_vars

\* C3: a pointer-down on the render surface opens a drag session and records
\* the pointer's coordinates; a pointer-move at (x, y) in a session adds
\* (x - prevX) * 0.005 rad to the Earth's yaw and (y - prevY) * 0.005 * 0.5 rad
\* to its pitch (5000 and 2500 micro-radians per pixel), then records (x, y).
C3_DragTurnsEarth ==
    [][/\ lastEvent'.type = "pointerdown" =>
            /\ isDragging'
            /\ previousMousePosition' = [x |-> lastEvent'.x, y |-> lastEvent'.y]
       /\ MovedInSession =>
            /\ earthRot'.y = earthRot.y
                               + (lastEvent'.x - previousMousePosition.x) * 5000
            /\ earthRot'.x = earthRot.x
                               + (lastEvent'.y - previousMousePosition.y) * 2500
            /\ previousMousePosition' = [x |-> lastEvent'.x, y |-> lastEvent'.y]
      ]_vars

\* a move in a session has turned the Earth about both axes
C3_Witness ==
    /\ lastEvent.type = "pointermove"
    /\ isDragging
    /\ earthRot.x # 0
    /\ earthRot.y # 0

\* C4: a pointer-move with no drag session open changes neither the rotation
\* of the three layers, nor the recorded pointer position, nor the drag flag.
C4_MoveOutOfSessionIsNoOp ==
    [][MovedOutOfSession =>
         UNCHANGED <<earthRot, cloudRot, bordersRot, previousMousePosition,
                     isDragging>>]_vars

\* a move with no session open, away from the recorded position
C4_Witness ==
    /\ lastEvent.type = "pointermove"
    /\ ~isDragging
    /\ lastEvent.x # previousMousePosition.x
    /\ lastEvent.y # previousMousePosition.y

\* C5: a pointer-up ends the session; from then on only a pointer-down on the
\* render surface opens one again (a pointer-down elsewhere never does), and
\* with no session open a pointer-move leaves the Earth's orientation alone.
C5_SessionEndsAtPointerUp ==
    [][/\ lastEvent'.type = "pointerup" => ~isDragging'
       /\ (~isDragging /\ lastEvent'.type # "pointerdown") => ~isDragging'
       /\ lastEvent'.type = "pointerdown-outside" => UNCHANGED isDragging
       /\ MovedOutOfSession => earthRot' = earthRot
      ]_vars

\* a drag has tilted the Earth, the session has ended and a move has followed
C5_Witness ==
    /\ lastEvent.type = "pointermove"
    /\ ~isDragging
    /\ earthRot.x # 0
    /\ lastEvent.y # previousMousePosition.y

\* C6: after a failed fetch the borders group is empty, one warning has been
\* logged, no rejection is left unhandled, and the animation and the pointer
\* handlers go on running.
C6_FailedFetchDegrades ==
    FetchFailed =>
        /\ bordersChildren = <<>>
        /\ warnings = 1
        /\ ~unhandled
        /\ rafPending > 0
        /\ nEvents < MaxEvents =>
              /\ ENABLED (\E t \in Times : Animate(t))
              /\ ENABLED (\E x \in Coords, y \in Coords : PointerMove(x, y))

\* the fetch has failed and a frame has been animated since
C6_Witness ==
    /\ FetchFailed
    /\ response.kind = "http"
    /\ response.status = 500
    /\ lastEvent.type = "animate"
    /\ earthRot.y > 0

\* C7: a malformed feature raises nothing, and every well-formed feature
\* before and after it has all its rings in the borders group.
C7_MalformedFeaturesAreSkipped ==
    (Drawn /\ \E i \in 1..Len(Features) : Malformed(Features[i])) =>
        /\ warnings = 0
        /\ drawLog.abortedAt = 0
        /\ \A j \in 1..Len(Features) :
              WellFormed(Features[j]) => HasAllItsLoops(j)

C9_OneLoopPerRing ==
    Drawn =>
        \A i \in 1..Len(Features) :
            (IsBorder(Features[i]) /\ WellFormed(Features[i])) => HasAllItsLoops(i)

\* C11: the loop never stops: between frames exactly one refresh callback is
\* pending, and under a fair frame clock a frame is animated again and again,
\* whatever pointer events and fetch completion come in between.
C11_LoopNeverStops ==
    /\ [](rafPending = 1)
    /\ []<>(lastEvent.type = "animate")

\* a frame animated after the pointer events and the end of the fetch
C11_Witness ==
    /\ lastEvent.type = "animate"
    /\ nEvents = MaxLoopEvents
    /\ fetchState = "done"
    /\ rafPending = 1

\* C12: the fetch is one-shot and does not block: while it is pending frames
\* and pointer events are handled; it ends once, the contents of the borders
\* group change only in the step that ends it, and nothing of the fetch
\* changes afterwards.
C12_FetchIsOneShot ==
    /\ []((fetchState # "done" /\ nEvents < MaxEvents) =>
            /\ ENABLED (\E t \in Times : Animate(t))
            /\ ENABLED (\E x \in Coords, y \in Coords : PointerMove(x, y))
            /\ ENABLED (\E x \in Coords, y \in Coords : PointerDown(x, y, TRUE)))
    /\ [][/\ bordersChildren' # bordersChildren =>
               /\ lastEvent'.type = "json"
               /\ fetchState = "parsing"
               /\ fetchState' = "done"
          /\ fetchState = "done" =>
               /\ fetchState' = "done"
               /\ UNCHANGED <<bordersChildren, drawLog, warnings, response>>
         ]_vars

\* the borders are drawn and a drag has turned the Earth since
C12_Witness ==
    /\ fetchState = "done"
    /\ bordersChildren # <<>>
    /\ lastEvent.type = "pointermove"
    /\ isDragging
    /\ earthRot.x # 0

\* C13: at every radius the projections of (0, 0) and (0, 180) have the same
\* y, and x and z of equal magnitude and opposite sign: they are the two ends
\* of a diameter of the equator.
C13_EquatorAntipodes ==
    \A a \in projected, b \in projected :
        (a.lat = 0 /\ a.lon = 0 /\ b.lat = 0 /\ b.lon = 180) =>
            /\ ~a.v.nan /\ ~b.v.nan
            /\ a.v.y = b.v.y
            /\ a.v.x = 0 - b.v.x
            /\ a.v.z = 0 - b.v.z
            /\ a.v # b.v

\* both points have been projected at the same radius
C13_Witness ==
    \E a \in projected, b \in projected :
        /\ a.lat = 0 /\ a.lon = 0 /\ b.lat = 0 /\ b.lon = 180
        /\ a.radius = b.radius /\ a.radius > 1

\* C14: the projection of a latitude in [-90, 90] and a longitude in
\* [-180, 180] at a radius r > 0 lies at distance r from the origin
\* (x^2 + y^2 + z^2 = r^2, on the grid of multiples of 90 degrees where the
\* sine and the cosine are exact).
C14_OnTheSphere ==
    \A p \in projected :
        /\ ~p.v.nan
        /\ p.radius > 0
        /\ p.v.x * p.v.x + p.v.y * p.v.y + p.v.z * p.v.z = p.radius * p.radius

\* a pole and a point of the equator have been projected
C14_Witness ==
    \E p \in projected, q \in projected :
        /\ p.lat = 90 /\ p.lon = -90
        /\ q.lat = 0 /\ q.lon = 90
        /\ p.radius > 1

\* C15: in a drag session, after the pointer-down at p0 and the moves p1..pn
\* the drag has added 0.005 * (xn - x0) rad to the Earth's yaw and
\* 0.0025 * (yn - y0) rad to its pitch, whatever the path; the frames animated
\* in between add their own yaw, 0.08 rad/s over the time they span.
C15_DragIsPathIndependent ==
    (isDragging /\ lastEvent.type = "pointermove") =>
        /\ earthRot.y = dragStart.rot.y
                          + 5000 * (lastEvent.x - dragStart.x)
                          + 80 * (lastTime - dragStart.time)
        /\ earthRot.x = dragStart.rot.x + 2500 * (lastEvent.y - dragStart.y)

\* a session with a frame between its moves, ended away from where it began
\* on a path that came back in x
C15_Witness ==
    /\ isDragging
    /\ lastEvent.type = "pointermove"
    /\ nEvents = MaxEvents
    /\ lastTime > dragStart.time
    /\ lastEvent.y # dragStart.y
    /\ lastEvent.x = dragStart.x
    /\ earthRot.y = 80 * lastTime

\* C16: at the end of every frame and every pointer handler the borders group
\* has the yaw and the pitch of the Earth mesh, though a frame copies the yaw
\* alone.
C16_BordersFollowEarth == bordersRot.y = earthRot.y /\ bordersRot.x = earthRot.x

\* a frame has turned the Earth after a drag tilted it
C16_Witness ==
    /\ lastEvent.type = "animate"
    /\ earthRot.x # 0
    /\ earthRot.y % 5000 # 0
    /\ bordersRot = earthRot
    /\ cloudRot # earthRot

\* navigation vocabulary
Settled == timers = <<>>
CalledWithMissing ==
    /\ nCalls' = nCalls + 1
    /\ navEvent'.type \in {"showSection", "popstate"}
    /\ navEvent'.target = MissingId
Clicked == nCalls' = nCalls + 1 /\ navEvent'.type = "click"

\* C17: after any sequence of showSection calls on existing sections, once
\* every pending timer has fired, the section named by currentSectionId is
\* the one and only section carrying the 'active' class.
C17_OneActiveSection ==
    Settled => \A s \in Sections : sectionActive[s] <=> s = currentSectionId

\* C18: after any sequence of showSection calls on existing sections, once
\* every pending timer has fired, the section named by currentSectionId has
\* zIndex 1 and not -1.
C18_CurrentSectionOnTop ==
    Settled => zIndex[currentSectionId] = 1

\* C19: showSection with an id that matches no element, called from the page
\* or from the popstate handler, keeps currentSectionId, keeps the 'active'
\* class and the zIndex of the section it names, and pushes no history entry.
C19_MissingTargetIsNoOp ==
    [][CalledWithMissing =>
          /\ currentSectionId' = currentSectionId
          /\ sectionActive'[currentSectionId] = sectionActive[currentSectionId]
          /\ zIndex'[currentSectionId] = zIndex[currentSectionId]
          /\ historyLen' = historyLen]_vars

\* C20: however many times initializeInteractiveButtons has run, one click on
\* an info button flips the display of its content once, between 'block' and
\* 'none', and flips the button's 'active' class once.
C20_ClickTogglesOnce ==
    [][(Clicked /\ listeners >= 1) =>
          /\ infoDisplay' = (IF infoDisplay = "block" THEN "none" ELSE "block")
          /\ buttonActive' = ~buttonActive]_vars

\* C10: an animation frame at time t adds 0.08 * (t - lastTime) / 1000 rad
\* (80 micro-radians per millisecond) to the Earth's yaw, which is no decrease
\* when t >= lastTime, stores t as lastTime, and changes neither the pitch of
\* any layer nor the drag session.
C10_FrameTurnsYawOnly ==
    [][Ticked =>
         /\ earthRot'.y = earthRot.y + 80 * (lastEvent'.t - lastTime)
         /\ lastEvent'.t >= lastTime => earthRot'.y >= earthRot.y
         /\ lastTime' = lastEvent'.t
         /\ earthRot'.x = earthRot.x
         /\ cloudRot'.x = cloudRot.x
         /\ bordersRot'.x = bordersRot.x
         /\ UNCHANGED <<isDragging, previousMousePosition>>
      ]_vars

\* a frame has turned a tilted Earth in the middle of a drag session
C10_Witness ==
    /\ lastEvent.type = "animate"
    /\ isDragging
    /\ earthRot.x # 0
    /\ lastEvent.t > 0
    /\ earthRot.y % 5000 # 0

====
